---- MODULE Spec2Model ----
(***************************************************************************)
(* State-machine model of gridatek/github-data-collector:                  *)
(*   - the repository collection stage (src/collect_repo_data.py and the   *)
(*     Airflow task collect_org_repositories),                             *)
(*   - the contributor collection stage (src/collect_contribution_data.py  *)
(*     and the Airflow task collect_contribution_data),                    *)
(*   - the summary aggregator and the dashboard renderer,                  *)
(*   - the retention sweep (cleanup_old_files),                            *)
(*   - a stage executed again for the same date token,                     *)
(*   - the scheduler running the tasks of the DAG.                         *)
(* Each stage has its own specification; the variables of the other stages *)
(* stay at their idle values.                                              *)
(***************************************************************************)
EXTENDS Integers, Sequences, FiniteSets, TLC

VARIABLES
  \* ---- repository collection stage
  variant,        \* "script": src/collect_repo_data.py, "dag": the Airflow task
  github_token,   \* whether the API credential is configured
  orgs,           \* the configured organization list
  max_repos,      \* --max-repos (script only)
  listing,        \* hosting API: organization -> number of public repositories
  rpc,            \* position of the stage
  oi,             \* index of the next organization of orgs
  all_repo_data,  \* records collected so far
  outcomes,       \* history: per processed organization, where its fetch failed
  repo_file,      \* repos_raw_<date>.json
  api_calls,      \* history: requests the stage has sent to the hosting API
  \* ---- contributor collection stage
  input_exists,     \* whether the input repository snapshot exists
  repos_data,       \* the input repository snapshot
  max_contributors, \* --max-contributors (script only)
  max_sample,       \* --max-repos of the contributor script
  api_contributors, \* hosting API: organization -> contributors of its repositories
  fail_repo,        \* hosting API: the repository whose contributor fetch fails
  fail_kind,        \* "fetch": the request fails, "field": reading a contributor fails
  cpc,              \* position of the stage
  top_repos,        \* the sampled repositories
  ci,               \* 1-based index of the current repository of top_repos
  contribution_data,\* entries collected so far
  contrib_file,     \* contributions_<date>.json
  fetches,          \* history: contributor fetches made so far
  fetched,          \* history: full names of the repositories fetched, in order
  inspections,      \* history: quota inspections made inside the loop
  low_at,           \* history: fetches made when the quota was last seen low, 0 if never
  \* ---- summary aggregator and dashboard renderer
  s_repos,          \* content of the repository snapshot given as repo_file
  contrib_arg,      \* contrib_file: "none" (None), "missing" (no such file), "file"
  s_contrib,        \* content of the contributor snapshot when contrib_arg = "file"
  spc,              \* position: "input", "generated", "failed", "rendered"
  summary,          \* the report returned by the aggregator
  html,             \* the result of create_dashboard_html
  \* ---- retention sweep
  ds,               \* context['ds'], the run's date token
  out_dir,          \* the files of the output directory
  dir0,             \* history: the output directory when the sweep started
  pending,          \* files of the glob result not yet visited
  unlink_failed,    \* history: files whose unlink raised
  swpc,             \* position: "start", "sweep", "done", "failed"
  \* ---- executions of a stage and of the DAG
  attempt,          \* number of the current execution of a stage for one date token
  dag_run,          \* scheduler: DAG run -> "queued", "running", "success", "failed"
  ti,               \* scheduler: DAG run -> task -> state of the task instance
  try_number        \* scheduler: DAG run -> task -> tries started so far

repoVars == <<variant, github_token, orgs, max_repos, listing, rpc, oi,
              all_repo_data, outcomes, repo_file, api_calls>>

contribVars == <<input_exists, repos_data, max_contributors, max_sample,
                 api_contributors, fail_repo, fail_kind, cpc, top_repos, ci,
                 contribution_data, contrib_file, fetches, fetched, inspections,
                 low_at>>

summaryVars == <<s_repos, contrib_arg, s_contrib, spc, summary, html>>

sweepVars == <<ds, out_dir, dir0, pending, unlink_failed, swpc>>

schedVars == <<attempt, dag_run, ti, try_number>>

vars == <<repoVars, contribVars, summaryVars, sweepVars, schedVars>>

\* a file of the output directory: absent, or present with its content
NoFile == [exists |-> FALSE, data |-> <<>>]
File(content) == [exists |-> TRUE, data |-> content]

\* ------------------------------------------------------------------ helpers

RECURSIVE SeqsUpTo(_, _)
\* all sequences over S of length at most n
SeqsUpTo(S, n) ==
  IF n = 0 THEN {<<>>}
  ELSE LET shorter == SeqsUpTo(S, n - 1)
       IN shorter \cup {Append(s, x) : s \in {t \in shorter : Len(t) = n - 1}, x \in S}

Min(a, b) == IF a < b THEN a ELSE b

\* Python's seq[:n] for n >= 0
Take(s, n) == SubSeq(s, 1, Min(n, Len(s)))

\* ------------------------------------------------------------------ bounds

MaxOrgs == 2       \* longest configured organization list
MaxListing == 2    \* most repositories the API lists for one organization
MaxReposArg == 2   \* largest --max-repos value

OrgNames == {"apache", "kubernetes"}
Variants == {"script", "dag"}
RunDate == "2024-03-10"

\* the stage is not running
ContribIdle ==
  /\ input_exists = FALSE /\ repos_data = <<>> /\ max_contributors = 1
  /\ max_sample = 1 /\ api_contributors = [o \in OrgNames |-> 0]
  /\ fail_repo = "-" /\ fail_kind = "fetch" /\ cpc = "idle" /\ top_repos = <<>>
  /\ ci = 1 /\ contribution_data = <<>> /\ contrib_file = NoFile
  /\ fetches = 0 /\ fetched = <<>> /\ inspections = 0 /\ low_at = 0

NoSummary == [ok |-> FALSE]
NoHtml == [ok |-> FALSE]

\* the stage is not running
SummaryIdle ==
  /\ s_repos = <<>> /\ contrib_arg = "none" /\ s_contrib = <<>>
  /\ spc = "idle" /\ summary = NoSummary /\ html = NoHtml

\* a date token "Y-M-D" as its three numbers
Ymd(y, m, d) == [kind |-> "ymd", y |-> y, m |-> m, d |-> d]

\* a token that is not of the form Y-M-D
Text(t) == [kind |-> t, y |-> 0, m |-> 0, d |-> 0]

\* the stage is not running
SweepIdle ==
  /\ ds = Ymd(2024, 3, 10) /\ out_dir = {} /\ dir0 = {} /\ pending = {}
  /\ unlink_failed = {} /\ swpc = "idle"

\* ---- the DAG github_org_data_collection

MaxDagRuns == 2   \* DAG runs the scheduler has created

DagRuns == 1..MaxDagRuns

\* collect_repos_task >> collect_contrib_task >> process_data_task
\*   >> validate_output >> cleanup_task
Tasks ==
  <<"collect_repositories", "collect_contributions", "process_data",
    "validate_output", "cleanup_old_files">>

\* no execution is repeated and the scheduler has created no run
SchedIdle ==
  /\ attempt = 1
  /\ dag_run = [r \in DagRuns |-> "none"]
  /\ ti = [r \in DagRuns |-> [t \in DOMAIN Tasks |-> "none"]]
  /\ try_number = [r \in DagRuns |-> [t \in DOMAIN Tasks |-> 0]]

\* ------------------------------------------------- repository collection

\* the API's listing of an organization: its repositories in pagination order
ApiRepos(org) == [k \in 1..listing[org] |-> [org |-> org, idx |-> k]]

\* where the fetch of one organization may fail: nowhere, at the organization
\* lookup, at the repository listing, or while reading repository k's fields
FailPoints(n) ==
  {[at |-> a, k |-> 0] : a \in {"none", "lookup", "listing"}}
    \cup {[at |-> "field", k |-> k] : k \in 1..n}

\* the record built from one repository object
RepoRecord(org_name, repo) ==
  [organization |-> org_name, name |-> repo.idx, full_name |-> <<repo.org, repo.idx>>]

\* the collector without the [:max_repos] slice
collect_organization_repos_all(org_name, cap, fail) ==
  IF fail.at # "none" THEN <<>>
  ELSE [k \in 1..Len(ApiRepos(org_name)) |-> RepoRecord(org_name, ApiRepos(org_name)[k])]

\* GitHubRepoCollector.collect_organization_repos: the whole body is one try
\* block, so any failure discards the organization's records
collect_organization_repos(org_name, cap, fail) ==
  IF fail.at # "none" THEN <<>>
  ELSE LET repos == Take(ApiRepos(org_name), cap)
       IN [k \in 1..Len(repos) |-> RepoRecord(org_name, repos[k])]

\* GitHubDataCollector.get_organization_repos: lookup and listing failures are
\* caught and give the empty list
get_organization_repos(org_name, fail) ==
  IF fail.at \in {"lookup", "listing"} THEN <<>> ELSE ApiRepos(org_name)

\* one iteration of the Airflow task's loop over orgs: records are appended to
\* all_repo_data one by one, and the except clause only skips the rest
DagCollectOrg(acc, org_name, fail) ==
  LET repos == get_organization_repos(org_name, fail)
      upto == IF fail.at = "field" THEN fail.k - 1 ELSE Len(repos)
  IN acc \o [k \in 1..upto |-> RepoRecord(org_name, repos[k])]

\* the records the stage processes for one organization
Processed(org_name) ==
  IF variant = "script" THEN Take(ApiRepos(org_name), max_repos) ELSE ApiRepos(org_name)

RepoInit ==
  /\ variant \in Variants
  /\ github_token \in BOOLEAN
  /\ orgs \in SeqsUpTo(OrgNames, MaxOrgs)
  /\ max_repos \in 1..MaxReposArg
  /\ listing \in [OrgNames -> 0..MaxListing]
  /\ rpc = "start"
  /\ oi = 1
  /\ all_repo_data = <<>>
  /\ outcomes = <<>>
  /\ repo_file = NoFile
  /\ api_calls = 0

\* the collector built without looking at the credential
CheckTokenSkipped ==
  /\ rpc = "start"
  /\ rpc' = "construct"
  /\ UNCHANGED <<contribVars, summaryVars, sweepVars, schedVars>>
  /\ UNCHANGED <<variant, github_token, orgs, max_repos, listing, oi,
                 all_repo_data, outcomes, repo_file, api_calls>>

\* the credential check: sys.exit(1) in the script, Variable.get raising in the task
CheckToken ==
  /\ rpc = "start"
  /\ rpc' = IF github_token THEN "construct" ELSE "exit1"
  /\ UNCHANGED <<contribVars, summaryVars, sweepVars, schedVars>>
  /\ UNCHANGED <<variant, github_token, orgs, max_repos, listing, oi,
                 all_repo_data, outcomes, repo_file, api_calls>>

\* the collector's constructor asks the API for the rate limit, outside any try
Construct ==
  /\ rpc = "construct"
  /\ \E ok \in BOOLEAN : rpc' = IF ok THEN "collect" ELSE "crashed"
  /\ api_calls' = api_calls + 1
  /\ UNCHANGED <<contribVars, summaryVars, sweepVars, schedVars>>
  /\ UNCHANGED <<variant, github_token, orgs, max_repos, listing, oi,
                 all_repo_data, outcomes, repo_file>>

\* one iteration of the loop over orgs
CollectOrg ==
  /\ rpc = "collect"
  /\ oi <= Len(orgs)
  /\ \E fail \in FailPoints(Len(Processed(orgs[oi]))) :
       /\ all_repo_data' =
            IF variant = "script"
            THEN all_repo_data \o collect_organization_repos(orgs[oi], max_repos, fail)
            ELSE DagCollectOrg(all_repo_data, orgs[oi], fail)
       /\ outcomes' = Append(outcomes, fail)
  /\ oi' = oi + 1
  /\ api_calls' = api_calls + 1
  /\ UNCHANGED <<contribVars, summaryVars, sweepVars, schedVars>>
  /\ UNCHANGED <<variant, github_token, orgs, max_repos, listing, rpc, repo_file>>

\* collection metadata and the whole-file write of repos_raw_<date>.json
SaveRepos ==
  /\ rpc = "collect"
  /\ oi > Len(orgs)
  /\ repo_file' = File([k \in 1..Len(all_repo_data) |->
                          [organization |-> all_repo_data[k].organization,
                           name |-> all_repo_data[k].name,
                           full_name |-> all_repo_data[k].full_name,
                           collection_date |-> RunDate]])
  /\ rpc' = IF variant = "script" THEN "saved" ELSE "done"
  /\ UNCHANGED <<contribVars, summaryVars, sweepVars, schedVars>>
  /\ UNCHANGED <<variant, github_token, orgs, max_repos, listing, oi,
                 all_repo_data, outcomes, api_calls>>

\* the script's final rate_limit_check, after the file is written
FinalRateCheck ==
  /\ rpc = "saved"
  /\ \E ok \in BOOLEAN : rpc' = IF ok THEN "done" ELSE "crashed"
  /\ api_calls' = api_calls + 1
  /\ UNCHANGED <<contribVars, summaryVars, sweepVars, schedVars>>
  /\ UNCHANGED <<variant, github_token, orgs, max_repos, listing, oi,
                 all_repo_data, outcomes, repo_file>>

\* the stage is not running
RepoIdle ==
  /\ orgs = <<>> /\ max_repos = 1 /\ listing = [o \in OrgNames |-> 0]
  /\ rpc = "idle" /\ oi = 1 /\ all_repo_data = <<>> /\ outcomes = <<>>
  /\ repo_file = NoFile /\ api_calls = 0

RepoNext == CheckToken \/ Construct \/ CollectOrg \/ SaveRepos \/ FinalRateCheck

RepoStageInit == RepoInit /\ ContribIdle /\ SummaryIdle /\ SweepIdle /\ SchedIdle

SpecRepo == RepoStageInit /\ [][RepoNext]_vars

\* ------------------------------------------------ contributor collection

MaxSnapshot == 2          \* longest input snapshot of SpecContrib
MaxContributorsArg == 2   \* largest --max-contributors value
MaxSampleArg == 2         \* largest --max-repos value of the contributor script
MaxApiContributors == 3   \* most contributors the API lists for one repository
QuotaTail == 2            \* repositories after the first quota inspection (SpecQuota)

RateCheckEvery == 10      \* if i % 10 == 0
RateThreshold == 100      \* if core.remaining < 100
DagSampleCap == 50        \* [:50]
DagContributorCap == 20   \* contributors[:20]

NoRepo == <<>>
Null == "<null>"

\* repository records of an input snapshot
Repo(org, name, stars, forks, language) ==
  [organization |-> org, name |-> name, full_name |-> <<org, name>>,
   stars |-> stars, forks |-> forks, language |-> language]

RepoUniverse ==
  { Repo("apache", 1, 100, 10, "Python"),
    Repo("apache", 2, 300, 5, Null),
    Repo("kubernetes", 1, 300, 20, "Go") }

\* a snapshot of n distinct repositories of one organization
LongSnapshot(n) == [k \in 1..n |-> Repo("apache", k, 100, 10, "Python")]

\* remaining quota values an inspection may see
QuotaLevels == {RateThreshold - 1, RateThreshold}

RECURSIVE InsertDesc(_, _, _)
\* x put behind every element whose col is at least x's
InsertDesc(sorted, x, col) ==
  IF sorted = <<>> THEN <<x>>
  ELSE IF Head(sorted)[col] >= x[col]
       THEN <<Head(sorted)>> \o InsertDesc(Tail(sorted), x, col)
       ELSE <<x>> \o sorted

RECURSIVE SortedDesc(_, _)
\* sorted(s, key=col, reverse=True): stable, descending
SortedDesc(s, col) ==
  IF s = <<>> THEN <<>>
  ELSE InsertDesc(SortedDesc(SubSeq(s, 1, Len(s) - 1), col), s[Len(s)], col)

RECURSIVE SortedByStarsTiesReversed(_)
\* a descending sort that puts a record before the earlier records of equal stars
SortedByStarsTiesReversed(s) ==
  IF s = <<>> THEN <<>>
  ELSE LET rest == SortedByStarsTiesReversed(SubSeq(s, 1, Len(s) - 1))
           x == s[Len(s)]
           before == SelectSeq(rest, LAMBDA r : r.stars > x.stars)
           after == SelectSeq(rest, LAMBDA r : r.stars <= x.stars)
       IN before \o <<x>> \o after

\* sorted(repos_data, key=lambda x: x['stars'], reverse=True)
SortedByStars(s) == SortedDesc(s, "stars")

\* the contributors the API lists for a repository
ApiContributors(repo) ==
  [k \in 1..api_contributors[repo.organization] |-> [login |-> k, contributions |-> 1]]

\* where the contributor fetch of a repository fails, "none" if it does not
FailureOf(repo) ==
  IF repo.full_name # fail_repo THEN "none"
  ELSE IF fail_kind = "field" /\ ApiContributors(repo) = <<>> THEN "none"
  ELSE fail_kind

NoEntry == [present |-> FALSE]

\* GitHubContributionCollector.collect_repository_contributors followed by the
\* metadata update of main: None on any failure
collect_repository_contributors(repo, cap) ==
  IF FailureOf(repo) # "none" THEN NoEntry
  ELSE LET contributors == Take(ApiContributors(repo), cap)
       IN [present |-> TRUE,
           repo_full_name |-> repo.full_name,
           total_contributors |-> Len(contributors),
           contributors |-> contributors,
           organization |-> repo.organization,
           repo_stars |-> repo.stars]

\* GitHubDataCollector.get_repository_contributors: a failed request is caught
\* and gives the empty list
get_repository_contributors(repo) ==
  IF FailureOf(repo) = "fetch" THEN <<>> ELSE ApiContributors(repo)

\* the loop body of the Airflow task: the entry is appended after the
\* contributors are read, so an exception while reading them drops it
DagRepoContributions(repo) ==
  LET contributors == get_repository_contributors(repo)
  IN IF FailureOf(repo) = "field" THEN NoEntry
     ELSE [present |-> TRUE,
           repo_full_name |-> repo.full_name,
           total_contributors |-> Len(contributors),
           contributors |-> Take(contributors, DagContributorCap),
           organization |-> repo.organization,
           repo_stars |-> repo.stars]

\* GitHubDataCollector.check_rate_limit: sleeps when the quota is low.  No
\* stage calls it.
check_rate_limit(remaining) == IF remaining < RateThreshold THEN "sleep" ELSE "continue"

ContribInit ==
  /\ variant \in Variants
  /\ github_token \in BOOLEAN
  /\ input_exists \in BOOLEAN
  /\ repos_data \in SeqsUpTo(RepoUniverse, MaxSnapshot)
  /\ max_contributors \in 1..MaxContributorsArg
  /\ max_sample \in 1..MaxSampleArg
  /\ api_contributors \in [OrgNames -> 0..MaxApiContributors]
  /\ fail_repo \in {NoRepo} \cup {r.full_name : r \in RepoUniverse}
  /\ fail_kind \in IF fail_repo = NoRepo THEN {"fetch"} ELSE {"fetch", "field"}
  /\ cpc = "start" /\ top_repos = <<>> /\ ci = 1
  /\ contribution_data = <<>> /\ contrib_file = NoFile
  /\ fetches = 0 /\ fetched = <<>> /\ inspections = 0 /\ low_at = 0

\* a run long enough for the periodic quota inspection to happen
QuotaInit ==
  /\ variant \in Variants
  /\ github_token = TRUE
  /\ input_exists = TRUE
  /\ \E n \in RateCheckEvery..(RateCheckEvery + QuotaTail) : repos_data = LongSnapshot(n)
  /\ max_contributors \in 1..MaxContributorsArg
  /\ max_sample = RateCheckEvery + QuotaTail
  /\ \E c \in 0..MaxApiContributors : api_contributors = [o \in OrgNames |-> c]
  /\ fail_repo \in {NoRepo, <<"apache", 1>>}
  /\ fail_kind = "fetch"
  /\ cpc = "start" /\ top_repos = <<>> /\ ci = 1
  /\ contribution_data = <<>> /\ contrib_file = NoFile
  /\ fetches = 0 /\ fetched = <<>> /\ inspections = 0 /\ low_at = 0

\* the credential: sys.exit(1) in the script, Variable.get raising in the task
ContribCheckToken ==
  /\ cpc = "start"
  /\ cpc' = IF ~github_token THEN "exit1"
            ELSE IF variant = "dag" THEN "construct" ELSE "load"
  /\ UNCHANGED <<repoVars, summaryVars, sweepVars, schedVars>>
  /\ UNCHANGED <<input_exists, repos_data, max_contributors, max_sample,
                 api_contributors, fail_repo, fail_kind, top_repos, ci,
                 contribution_data, contrib_file, fetches, fetched, inspections,
                 low_at>>

\* GitHubDataCollector.__init__ asks the API for the rate limit, outside any try
ContribConstruct ==
  /\ cpc = "construct"
  /\ \E ok \in BOOLEAN : cpc' = IF ok THEN "load" ELSE "crashed"
  /\ UNCHANGED <<repoVars, summaryVars, sweepVars, schedVars>>
  /\ UNCHANGED <<input_exists, repos_data, max_contributors, max_sample,
                 api_contributors, fail_repo, fail_kind, top_repos, ci,
                 contribution_data, contrib_file, fetches, fetched, inspections,
                 low_at>>

\* the input snapshot is read, ranked by stars and cut to the sample size
LoadAndSelect ==
  /\ cpc = "load"
  /\ IF ~input_exists
     THEN /\ cpc' = IF variant = "script" THEN "exit1" ELSE "crashed"
          /\ UNCHANGED top_repos
     ELSE /\ top_repos' = Take(SortedByStars(repos_data),
                               IF variant = "script" THEN max_sample ELSE DagSampleCap)
          /\ cpc' = "fetch"
  /\ UNCHANGED <<repoVars, summaryVars, sweepVars, schedVars>>
  /\ UNCHANGED <<input_exists, repos_data, max_contributors, max_sample,
                 api_contributors, fail_repo, fail_kind, ci,
                 contribution_data, contrib_file, fetches, fetched, inspections,
                 low_at>>

\* one contributor fetch of the loop over top_repos
FetchRepo ==
  /\ cpc = "fetch"
  /\ ci <= Len(top_repos)
  /\ LET entry == IF variant = "script"
                  THEN collect_repository_contributors(top_repos[ci], max_contributors)
                  ELSE DagRepoContributions(top_repos[ci])
     IN contribution_data' = IF entry.present
                             THEN Append(contribution_data, entry)
                             ELSE contribution_data
  /\ fetches' = fetches + 1
  /\ fetched' = Append(fetched, top_repos[ci].full_name)
  /\ IF variant = "script"
     THEN cpc' = "rate" /\ UNCHANGED ci
     ELSE ci' = ci + 1 /\ UNCHANGED cpc
  /\ UNCHANGED <<repoVars, summaryVars, sweepVars, schedVars>>
  /\ UNCHANGED <<input_exists, repos_data, max_contributors, max_sample,
                 api_contributors, fail_repo, fail_kind, top_repos,
                 contrib_file, inspections, low_at>>

\* "Rate limit management" of the script: every tenth repository the quota is
\* read and printed; the call is outside any try
RateLimitManagement ==
  /\ cpc = "rate"
  /\ IF ci % RateCheckEvery = 0
     THEN \E ok \in BOOLEAN, remaining \in QuotaLevels :
            IF ok
            THEN /\ inspections' = inspections + 1
                 /\ low_at' = IF remaining < RateThreshold THEN fetches ELSE 0
                 /\ ci' = ci + 1
                 /\ cpc' = "fetch"
            ELSE /\ cpc' = "crashed"
                 /\ UNCHANGED <<inspections, low_at, ci>>
     ELSE /\ ci' = ci + 1
          /\ cpc' = "fetch"
          /\ UNCHANGED <<inspections, low_at>>
  /\ UNCHANGED <<repoVars, summaryVars, sweepVars, schedVars>>
  /\ UNCHANGED <<input_exists, repos_data, max_contributors, max_sample,
                 api_contributors, fail_repo, fail_kind, top_repos,
                 contribution_data, contrib_file, fetches, fetched>>

\* the whole-file write of contributions_<date>.json
SaveContrib ==
  /\ cpc = "fetch"
  /\ ci > Len(top_repos)
  /\ contrib_file' = File([k \in 1..Len(contribution_data) |->
                             [repo_full_name |-> contribution_data[k].repo_full_name,
                              total_contributors |-> contribution_data[k].total_contributors,
                              contributors |-> contribution_data[k].contributors,
                              organization |-> contribution_data[k].organization,
                              repo_stars |-> contribution_data[k].repo_stars,
                              collection_date |-> RunDate]])
  /\ cpc' = "done"
  /\ UNCHANGED <<repoVars, summaryVars, sweepVars, schedVars>>
  /\ UNCHANGED <<input_exists, repos_data, max_contributors, max_sample,
                 api_contributors, fail_repo, fail_kind, top_repos, ci,
                 contribution_data, fetches, fetched, inspections, low_at>>

ContribNext == ContribCheckToken \/ ContribConstruct \/ LoadAndSelect \/ FetchRepo
                 \/ RateLimitManagement \/ SaveContrib

ContribStageInit == ContribInit /\ RepoIdle /\ SummaryIdle /\ SweepIdle /\ SchedIdle

QuotaStageInit == QuotaInit /\ RepoIdle /\ SummaryIdle /\ SweepIdle /\ SchedIdle

SpecContrib == ContribStageInit /\ [][ContribNext]_vars

SpecQuota == QuotaStageInit /\ [][ContribNext]_vars

\* ---------------------------------------------- summary and dashboard

MaxSummaryRepos == 3     \* longest repository snapshot given to the aggregator
MaxContribEntries == 2   \* longest contributor snapshot given to the aggregator

ScriptTopRepos == 25         \* repo_df.nlargest(25, ...)
ScriptTopLanguages == 15     \* value_counts().head(15)
ScriptTopLicenses == 10      \* value_counts().head(10)
ScriptTopContributors == 25  \* [:25]
DagTopRepos == 20            \* repo_df.nlargest(20, ...)
DagTopLanguages == 10        \* value_counts().head(10)
DagTopContributors == 20     \* [:20]

\* a repository record with the columns the aggregator reads
SummaryRepo(org, name, stars, forks, language, license, size) ==
  [organization |-> org, name |-> name, full_name |-> <<org, name>>,
   stars |-> stars, forks |-> forks, language |-> language,
   license |-> license, size |-> size, open_issues |-> 1]

RepoA == SummaryRepo("apache", 1, 100, 10, "Python", "MIT", 5)
RepoB == SummaryRepo("apache", 2, 300, 5, Null, Null, 9)
RepoC == SummaryRepo("kubernetes", 1, 300, 20, "Go", "MIT", 9)

SummaryUniverse == {RepoA, RepoB, RepoC}

\* entries of a contributor snapshot
Contribution(full_name, total, contributors) ==
  [repo_full_name |-> full_name, total_contributors |-> total,
   contributors |-> contributors]

EntryUniverse ==
  { Contribution(<<"apache", 1>>, 1, <<[login |-> "bob", contributions |-> 10]>>),
    Contribution(<<"kubernetes", 1>>, 30,
                 <<[login |-> "bob", contributions |-> 15],
                   [login |-> "Bob", contributions |-> 7]>>),
    Contribution(<<"apache", 2>>, 0, <<>>) }

RECURSIVE SumOf(_, _)
\* the sum of column col over s
SumOf(s, col) == IF s = <<>> THEN 0 ELSE Head(s)[col] + SumOf(Tail(s), col)

Range(s) == {s[k] : k \in 1..Len(s)}

SetMax(S) == CHOOSE m \in S : \A x \in S : x <= m
SetMin(S) == CHOOSE m \in S : \A x \in S : m <= x

RECURSIVE NLargestIdxKeepLast(_, _, _, _)
\* nlargest with keep='last': equal values in reverse row order
NLargestIdxKeepLast(n, data, col, rest) ==
  IF n = 0 \/ rest = {} THEN <<>>
  ELSE LET m == SetMax({data[i][col] : i \in rest})
           i == SetMax({j \in rest : data[j][col] = m})
       IN <<i>> \o NLargestIdxKeepLast(n - 1, data, col, rest \ {i})

RECURSIVE NLargestIdx(_, _, _, _)
\* DataFrame.nlargest(n, col), keep='first': the row indices, among rest, of the
\* n largest values of col in descending order, equal values in row order
NLargestIdx(n, data, col, rest) ==
  IF n = 0 \/ rest = {} THEN <<>>
  ELSE LET m == SetMax({data[i][col] : i \in rest})
           i == SetMin({j \in rest : data[j][col] = m})
       IN <<i>> \o NLargestIdx(n - 1, data, col, rest \ {i})

\* the whole frame in nlargest order, n ignored
nlargest_uncapped(n, data, col) ==
  LET idx == NLargestIdx(Len(data), data, col, DOMAIN data)
  IN [k \in 1..Len(idx) |->
        [full_name |-> data[idx[k]].full_name, stars |-> data[idx[k]].stars,
         forks |-> data[idx[k]].forks, language |-> data[idx[k]].language,
         organization |-> data[idx[k]].organization]]

\* repo_df.nlargest(n, col)[[columns]].to_dict('records')
nlargest(n, data, col) ==
  LET idx == NLargestIdx(n, data, col, DOMAIN data)
  IN [k \in 1..Len(idx) |->
        [full_name |-> data[idx[k]].full_name, stars |-> data[idx[k]].stars,
         forks |-> data[idx[k]].forks, language |-> data[idx[k]].language,
         organization |-> data[idx[k]].organization]]

RECURSIVE FirstSeen(_, _)
\* the distinct values of s that are not null, in order of first occurrence
FirstSeen(s, seen) ==
  IF s = <<>> THEN <<>>
  ELSE IF Head(s) = Null \/ Head(s) \in seen THEN FirstSeen(Tail(s), seen)
       ELSE <<Head(s)>> \o FirstSeen(Tail(s), seen \cup {Head(s)})

\* Series.value_counts(): dropna=True, so null values are not counted; counts
\* descending, equal counts in order of first occurrence
value_counts(data, col) ==
  LET values == [k \in 1..Len(data) |-> data[k][col]]
      keys == FirstSeen(values, {})
      counted == [k \in 1..Len(keys) |->
                    [key |-> keys[k],
                     count |-> Cardinality({i \in DOMAIN values : values[i] = keys[k]})]]
  IN SortedDesc(counted, "count")

\* the rollup with the first row of each group taken for the whole group
org_stats_first_row(data) ==
  [o \in {data[k].organization : k \in DOMAIN data} |->
     LET rows == SelectSeq(data, LAMBDA r : r.organization = o)
     IN [name |-> 1,
         stars_sum |-> rows[1].stars,
         stars_max |-> rows[1].stars,
         forks_sum |-> rows[1].forks,
         forks_max |-> rows[1].forks,
         open_issues |-> rows[1].open_issues]]

\* repo_df.groupby('organization').agg(...)
org_stats(data) ==
  [o \in {data[k].organization : k \in DOMAIN data} |->
     LET rows == SelectSeq(data, LAMBDA r : r.organization = o)
     IN [name |-> Len(rows),
         stars_sum |-> SumOf(rows, "stars"),
         stars_max |-> SetMax({rows[k].stars : k \in DOMAIN rows}),
         forks_sum |-> SumOf(rows, "forks"),
         forks_max |-> SetMax({rows[k].forks : k \in DOMAIN rows}),
         open_issues |-> SumOf(rows, "open_issues")]]

RECURSIVE Flatten(_)
\* for repo in contrib_data: for contributor in repo['contributors']
Flatten(contrib_data) ==
  IF contrib_data = <<>> THEN <<>>
  ELSE Head(contrib_data).contributors \o Flatten(Tail(contrib_data))

\* one pass of the inner loop body over contributor c
AddContribution(activity, c) ==
  IF \E k \in DOMAIN activity : activity[k].login = c.login
  THEN [k \in DOMAIN activity |->
          IF activity[k].login = c.login
          THEN [login |-> c.login,
                total_contributions |-> activity[k].total_contributions + c.contributions,
                repos_contributed |-> activity[k].repos_contributed + 1]
          ELSE activity[k]]
  ELSE Append(activity, [login |-> c.login, total_contributions |-> c.contributions,
                         repos_contributed |-> 1])

RECURSIVE contributor_activity(_)
\* the dict built by the two nested loops, in insertion order
contributor_activity(flat) ==
  IF flat = <<>> THEN <<>>
  ELSE AddContribution(contributor_activity(SubSeq(flat, 1, Len(flat) - 1)), flat[Len(flat)])

\* round(a / b, 2) in hundredths: the nearest hundredth, an exact half to the
\* even one; 0 for b = 0 (avg_contributors ... if contrib_data else 0)
round2(a, b) ==
  IF b = 0 THEN 0
  ELSE LET q == (100 * a) \div b
           r == (100 * a) % b
       IN IF 2 * r < b THEN q
          ELSE IF 2 * r > b THEN q + 1
          ELSE IF q % 2 = 0 THEN q ELSE q + 1

\* the contribution section with the leaderboard left in insertion order
contribution_analysis_unsorted(contrib_data, topk) ==
  [repositories_analyzed |-> Len(contrib_data),
   total_contributors |-> SumOf(contrib_data, "total_contributors"),
   average_contributors_per_repo |->
     round2(SumOf(contrib_data, "total_contributors"), Len(contrib_data)),
   top_contributors |-> Take(contributor_activity(Flatten(contrib_data)), topk)]

\* the contribution section with the stored contributor sequences counted
\* in place of the total_contributors fields
contribution_analysis_stored(contrib_data, topk) ==
  [repositories_analyzed |-> Len(contrib_data),
   total_contributors |-> Len(Flatten(contrib_data)),
   average_contributors_per_repo |->
     round2(Len(Flatten(contrib_data)), Len(contrib_data)),
   top_contributors |->
     Take(SortedDesc(contributor_activity(Flatten(contrib_data)), "total_contributions"),
          topk)]

\* the contribution section computed from a loaded contributor snapshot
contribution_analysis(contrib_data, topk) ==
  [repositories_analyzed |-> Len(contrib_data),
   total_contributors |-> SumOf(contrib_data, "total_contributors"),
   average_contributors_per_repo |->
     round2(SumOf(contrib_data, "total_contributors"), Len(contrib_data)),
   top_contributors |->
     Take(SortedDesc(contributor_activity(Flatten(contrib_data)), "total_contributions"),
          topk)]

NoSection ==
  [repositories_analyzed |-> 0, total_contributors |-> 0,
   average_contributors_per_repo |-> 0, top_contributors |-> <<>>]

\* the part of the report computed from the repository snapshot
RepoSections(data, topk, toplang) ==
  [ok |-> TRUE,
   total_repositories |-> Len(data),
   total_organizations |-> Cardinality({data[k].organization : k \in DOMAIN data}),
   total_stars |-> SumOf(data, "stars"),
   total_forks |-> SumOf(data, "forks"),
   organization_breakdown |-> org_stats(data),
   top_languages |-> Take(value_counts(data, "language"), toplang),
   top_starred_repositories |-> nlargest(topk, data, "stars"),
   top_forked_repositories |-> nlargest(topk, data, "forks")]

\* record r1 extended and overridden by the fields of r2
Merge(r1, r2) ==
  [k \in DOMAIN r1 \cup DOMAIN r2 |-> IF k \in DOMAIN r2 THEN r2[k] ELSE r1[k]]

\* src/generate_summary.py generate_summary_report(repo_file, contrib_file):
\* the columns of an empty frame do not exist, so an empty snapshot raises; the
\* contribution section is added only for an existing, non-empty contributor file
generate_summary_report(data, arg, contrib_data) ==
  IF data = <<>> THEN NoSummary
  ELSE LET with == arg = "file" /\ contrib_data # <<>>
       IN Merge(RepoSections(data, ScriptTopRepos, ScriptTopLanguages),
                [license_distribution |->
                   Take(value_counts(data, "license"), ScriptTopLicenses),
                 largest_repo |->
                   data[NLargestIdx(1, data, "size", DOMAIN data)[1]].full_name,
                 has_contribution_analysis |-> with,
                 contribution_analysis |->
                   IF with THEN contribution_analysis(contrib_data, ScriptTopContributors)
                   ELSE NoSection])

\* DataProcessor.create_summary_report(repo_file, contrib_file): both files are
\* opened unconditionally, and the contribution section is always built
create_summary_report(data, arg, contrib_data) ==
  IF arg # "file" \/ data = <<>> THEN NoSummary
  ELSE Merge(RepoSections(data, DagTopRepos, DagTopLanguages),
             [has_contribution_analysis |-> TRUE,
              contribution_analysis |->
                contribution_analysis(contrib_data, DagTopContributors)])

\* the filters the dashboard template applies ({{ ... | tojsonfilter }})
TemplateFilters == {"tojsonfilter"}

\* filters a default jinja2 environment knows
JinjaFilters ==
  {"abs", "default", "escape", "first", "format", "int", "join", "last", "length",
   "list", "lower", "round", "safe", "sort", "string", "sum", "tojson", "upper"}

\* create_dashboard_html: Template(template_str) compiles the template, which
\* fails on a filter the environment does not know; otherwise the contributor
\* table is rendered when the report has a contribution_analysis section
create_dashboard_html(summary_data) ==
  IF ~(TemplateFilters \subseteq JinjaFilters)
  THEN [ok |-> FALSE, error |-> "TemplateAssertionError", contributor_table |-> FALSE]
  ELSE [ok |-> TRUE, error |-> "", contributor_table |->
                                     summary_data.has_contribution_analysis]

SummaryInit ==
  /\ variant \in Variants
  /\ github_token = TRUE
  /\ s_repos \in SeqsUpTo(SummaryUniverse, MaxSummaryRepos)
  /\ contrib_arg \in {"none", "missing", "file"}
  /\ s_contrib \in IF contrib_arg = "file"
                   THEN SeqsUpTo(EntryUniverse, MaxContribEntries) ELSE {<<>>}
  /\ spc = "input"
  /\ summary = NoSummary
  /\ html = NoHtml

\* the aggregator is called on the two snapshots
Generate ==
  /\ spc = "input"
  /\ summary' = IF variant = "script"
                THEN generate_summary_report(s_repos, contrib_arg, s_contrib)
                ELSE create_summary_report(s_repos, contrib_arg, s_contrib)
  /\ spc' = IF summary'.ok THEN "generated" ELSE "failed"
  /\ UNCHANGED <<s_repos, contrib_arg, s_contrib, html>>
  /\ UNCHANGED <<repoVars, contribVars, sweepVars, schedVars>>

\* the dashboard script renders the report of src/generate_summary.py
Render ==
  /\ spc = "generated"
  /\ variant = "script"
  /\ html' = create_dashboard_html(summary)
  /\ spc' = "rendered"
  /\ UNCHANGED <<s_repos, contrib_arg, s_contrib, summary>>
  /\ UNCHANGED <<repoVars, contribVars, sweepVars, schedVars>>

SummaryNext == Generate \/ Render

SummaryStageInit == SummaryInit /\ RepoIdle /\ ContribIdle /\ SweepIdle /\ SchedIdle

SpecSummary == SummaryStageInit /\ [][SummaryNext]_vars

\* ------------------------------------- summary of a snapshot wider than K

TopKTail == 1   \* records, languages, licenses and logins beyond the largest K

LanguageNames ==
  <<"Python", "Go", "Java", "C", "C++", "Rust", "Ruby", "Scala", "Kotlin", "Swift",
    "Shell", "Perl", "PHP", "Lua", "R", "Dart", "Elixir", "Haskell">>

LicenseNames ==
  <<"MIT", "Apache-2.0", "GPL-3.0", "GPL-2.0", "BSD-3-Clause", "BSD-2-Clause",
    "MPL-2.0", "LGPL-3.0", "ISC", "Unlicense", "EPL-2.0", "AGPL-3.0", "CC0-1.0">>

\* a snapshot of n repositories: language and license cycle through as many
\* names as a top-K list plus TopKTail can show, every ninth language is
\* null, stars repeat
WideSnapshot(n) ==
  [k \in 1..n |->
     SummaryRepo("apache", k, 100 * (k % 4), k,
                 IF k % 9 = 0 THEN Null
                 ELSE LanguageNames[((k - 1) % (ScriptTopLanguages + TopKTail)) + 1],
                 LicenseNames[((k - 1) % (ScriptTopLicenses + TopKTail)) + 1],
                 k)]

\* a contributor snapshot of two repositories: c contributors in the first,
\* the last three of them again, latest first, in the second
WideContribution(c) ==
  <<Contribution(<<"apache", 1>>, c, [k \in 1..c |-> [login |-> k, contributions |-> k % 5]]),
    Contribution(<<"apache", 2>>, Min(c, 3),
                 [k \in 1..Min(c, 3) |-> [login |-> c + 1 - k, contributions |-> k]])>>

TopKInit ==
  /\ variant \in Variants
  /\ github_token = TRUE
  /\ \E n \in 1..(ScriptTopRepos + TopKTail) : s_repos = WideSnapshot(n)
  /\ contrib_arg = "file"
  /\ \E c \in 0..(ScriptTopContributors + TopKTail) : s_contrib = WideContribution(c)
  /\ spc = "input"
  /\ summary = NoSummary
  /\ html = NoHtml

TopKStageInit == TopKInit /\ RepoIdle /\ ContribIdle /\ SweepIdle /\ SchedIdle

SpecTopK == TopKStageInit /\ [][SummaryNext]_vars

\* ------------------------------------------------------ retention sweep

MaxDirFiles == 4   \* most files in the output directory

Horizon == 7       \* if (current_date - file_date).days > 7

\* the file <prefix>_<token><ext>
OutFile(prefix, token, ext) == [prefix |-> prefix, token |-> token, ext |-> ext]

FileUniverse ==
  { OutFile("repos_raw", Ymd(2024, 3, 9), ".json"),
    OutFile("contributions", Ymd(2024, 3, 5), ".json"),
    OutFile("github_summary", Ymd(2024, 3, 3), ".json"),
    OutFile("repos_raw", Ymd(2024, 3, 2), ".json"),
    OutFile("contributions", Ymd(2024, 2, 29), ".json"),
    OutFile("repos_raw", Ymd(2024, 2, 30), ".json"),
    OutFile("repos_raw", Text("latest"), ".json"),
    OutFile("notes", Ymd(2024, 2, 29), "") }

RunDates == {Ymd(2024, 3, 10), Ymd(2024, 3, 17)}

IsLeap(y) == (y % 4 = 0 /\ y % 100 # 0) \/ y % 400 = 0

DaysInMonth(y, m) ==
  IF m = 2 THEN (IF IsLeap(y) THEN 29 ELSE 28)
  ELSE IF m \in {4, 6, 9, 11} THEN 30 ELSE 31

RECURSIVE DaysBeforeMonth(_, _)
DaysBeforeMonth(y, m) ==
  IF m = 1 THEN 0 ELSE DaysBeforeMonth(y, m - 1) + DaysInMonth(y, m - 1)

\* datetime.toordinal: days since 0001-01-01
Ordinal(y, m, d) ==
  365 * (y - 1) + ((y - 1) \div 4) - ((y - 1) \div 100) + ((y - 1) \div 400)
    + DaysBeforeMonth(y, m) + d

\* datetime.strptime(date_str, '%Y-%m-%d'): ValueError unless the text is a
\* calendar date
strptime(token) ==
  IF token.kind = "ymd" /\ token.m \in 1..12 /\ token.d \in 1..DaysInMonth(token.y, token.m)
  THEN [ok |-> TRUE, ordinal |-> Ordinal(token.y, token.m, token.d)]
  ELSE [ok |-> FALSE, ordinal |-> 0]

\* glob.glob(str(output_dir / "*.json"))
glob_json(files) == {f \in files : f.ext = ".json"}

\* file_path.name.split('_')[-1].replace('.json', '')
date_str(f) == IF f.ext \in {".json", ""} THEN f.token ELSE Text("other")

\* (current_date - file_date).days >= 7: the boundary day deleted as well
IsOldInclusive(current_date, file_date) ==
  current_date.ordinal - file_date.ordinal >= Horizon

\* (current_date - file_date).days > 7
IsOld(current_date, file_date) ==
  current_date.ordinal - file_date.ordinal > Horizon

SweepInit ==
  /\ variant = "dag"
  /\ github_token = TRUE
  /\ ds \in RunDates
  /\ out_dir \in {S \in SUBSET FileUniverse : Cardinality(S) <= MaxDirFiles}
  /\ dir0 = out_dir
  /\ pending = {}
  /\ unlink_failed = {}
  /\ swpc = "start"

\* current_date is parsed and the directory is listed
StartSweep ==
  /\ swpc = "start"
  /\ pending' = glob_json(out_dir)
  /\ swpc' = "sweep"
  /\ UNCHANGED <<ds, out_dir, dir0, unlink_failed>>
  /\ UNCHANGED <<repoVars, contribVars, summaryVars, schedVars>>

\* one iteration of the loop over the glob result, in the order the file
\* system lists it: ValueError is caught, an error of unlink is not
VisitFile ==
  /\ swpc = "sweep"
  /\ \E f \in pending, unlink_ok \in BOOLEAN :
       LET file_date == strptime(date_str(f))
           expired == file_date.ok /\ IsOld(strptime(ds), file_date)
       IN /\ pending' = pending \ {f}
          /\ IF expired /\ unlink_ok
             THEN out_dir' = out_dir \ {f} /\ UNCHANGED <<unlink_failed, swpc>>
             ELSE IF expired
                  THEN /\ unlink_failed' = unlink_failed \cup {f}
                       /\ swpc' = "failed"
                       /\ UNCHANGED out_dir
                  ELSE UNCHANGED <<out_dir, unlink_failed, swpc>>
  /\ UNCHANGED <<ds, dir0>>
  /\ UNCHANGED <<repoVars, contribVars, summaryVars, schedVars>>

\* the loop is over
FinishSweep ==
  /\ swpc = "sweep"
  /\ pending = {}
  /\ swpc' = "done"
  /\ UNCHANGED <<ds, out_dir, dir0, pending, unlink_failed>>
  /\ UNCHANGED <<repoVars, contribVars, summaryVars, schedVars>>

SweepNext == StartSweep \/ VisitFile \/ FinishSweep

SweepStageInit == SweepInit /\ RepoIdle /\ ContribIdle /\ SummaryIdle /\ SchedIdle

SpecSweep == SweepStageInit /\ [][SweepNext]_vars

\* ------------------------------------------- the two collection stages

\* a run of either collection stage
CollectStageInit == RepoStageInit \/ ContribStageInit

CollectNext ==
  \/ CheckToken \/ Construct \/ CollectOrg \/ SaveRepos \/ FinalRateCheck
  \/ ContribCheckToken \/ ContribConstruct \/ LoadAndSelect \/ FetchRepo
  \/ RateLimitManagement \/ SaveContrib

SpecCollect == CollectStageInit /\ [][CollectNext]_vars

\* ------------------------------- a stage executed again for the same date

MaxReruns == 1   \* times a script is started again with the same --date

Retries == 2     \* 'retries': 2

\* src/collect_repo_data.py is started again with the same arguments, or the
\* scheduler retries the failed task collect_repositories: a new process with
\* the output directory as the last execution left it and the API as it is now
RerunRepo ==
  /\ rpc \in (IF variant = "script" THEN {"done", "crashed", "exit1"}
              ELSE {"crashed", "exit1"})
  /\ attempt <= (IF variant = "script" THEN MaxReruns ELSE Retries)
  /\ attempt' = attempt + 1
  /\ listing' \in [OrgNames -> 0..MaxListing]
  /\ rpc' = "start" /\ oi' = 1 /\ all_repo_data' = <<>> /\ outcomes' = <<>>
  /\ api_calls' = 0
  /\ UNCHANGED <<variant, github_token, orgs, max_repos, repo_file>>
  /\ UNCHANGED <<contribVars, summaryVars, sweepVars, dag_run, ti, try_number>>

\* src/collect_contribution_data.py is started again with the same arguments,
\* or the scheduler retries the failed task collect_contributions
RerunContrib ==
  /\ cpc \in (IF variant = "script" THEN {"done", "crashed", "exit1"}
              ELSE {"crashed", "exit1"})
  /\ attempt <= (IF variant = "script" THEN MaxReruns ELSE Retries)
  /\ attempt' = attempt + 1
  /\ \E c \in 0..MaxApiContributors : api_contributors' = [o \in OrgNames |-> c]
  /\ cpc' = "start" /\ top_repos' = <<>> /\ ci' = 1 /\ contribution_data' = <<>>
  /\ fetches' = 0 /\ fetched' = <<>> /\ inspections' = 0 /\ low_at' = 0
  /\ UNCHANGED <<input_exists, repos_data, max_contributors, max_sample,
                 fail_repo, fail_kind, contrib_file>>
  /\ UNCHANGED <<repoVars, summaryVars, sweepVars, dag_run, ti, try_number>>

RerunNext ==
  \/ CheckToken \/ Construct \/ CollectOrg \/ SaveRepos \/ FinalRateCheck
  \/ ContribCheckToken \/ ContribConstruct \/ LoadAndSelect \/ FetchRepo
  \/ RateLimitManagement \/ SaveContrib
  \/ RerunRepo \/ RerunContrib

SpecRerun == CollectStageInit /\ [][RerunNext]_vars

\* ------------------------------------- the scheduler running the DAG

max_active_runs == 1   \* max_active_runs=1

MaxTaskFailures == 3    \* tries of task instances that fail, over all runs

LastTask == Len(Tasks)

RECURSIVE SumOver(_, _)
\* the sum of f[x] over the set S
SumOver(f, S) ==
  IF S = {} THEN 0
  ELSE LET x == CHOOSE y \in S : TRUE IN f[x] + SumOver(f, S \ {x})

\* the tries that have failed so far
FailedTries ==
  SumOver([p \in DagRuns \X DOMAIN Tasks |->
             try_number[p[1]][p[2]]
               - (IF ti[p[1]][p[2]] \in {"running", "success"} THEN 1 ELSE 0)],
          DagRuns \X DOMAIN Tasks)

RunningRuns == {r \in DagRuns : dag_run[r] = "running"}

PipelineInit ==
  /\ variant = "dag"
  /\ github_token = TRUE
  /\ RepoIdle /\ ContribIdle /\ SummaryIdle /\ SweepIdle /\ SchedIdle

\* schedule='@daily' (or a manual trigger) creates a DAG run
CreateRun ==
  /\ \E r \in DagRuns :
       /\ dag_run[r] = "none"
       /\ dag_run' = [dag_run EXCEPT ![r] = "queued"]
  /\ UNCHANGED <<ti, try_number, attempt>>
  /\ UNCHANGED <<repoVars, contribVars, summaryVars, sweepVars>>

\* a queued run becomes active while fewer than max_active_runs runs are
StartRun ==
  /\ \E r \in DagRuns :
       /\ dag_run[r] = "queued"
       /\ Cardinality(RunningRuns) < max_active_runs
       /\ dag_run' = [dag_run EXCEPT ![r] = "running"]
  /\ UNCHANGED <<ti, try_number, attempt>>
  /\ UNCHANGED <<repoVars, contribVars, summaryVars, sweepVars>>

\* a task instance of an active run starts although its upstream task has
\* not succeeded
StartTaskIgnoringUpstream ==
  /\ \E r \in DagRuns, t \in DOMAIN Tasks :
       /\ dag_run[r] = "running"
       /\ ti[r][t] \in {"none", "up_for_retry"}
       /\ ti' = [ti EXCEPT ![r][t] = "running"]
       /\ try_number' = [try_number EXCEPT ![r][t] = @ + 1]
  /\ UNCHANGED <<dag_run, attempt>>
  /\ UNCHANGED <<repoVars, contribVars, summaryVars, sweepVars>>

\* a >> b: a task instance of an active run starts once its upstream task has
\* succeeded (trigger rule all_success), for the first time or as a retry
StartTask ==
  /\ \E r \in DagRuns, t \in DOMAIN Tasks :
       /\ dag_run[r] = "running"
       /\ ti[r][t] \in {"none", "up_for_retry"}
       /\ IF t = 1 THEN TRUE ELSE ti[r][t - 1] = "success"
       /\ ti' = [ti EXCEPT ![r][t] = "running"]
       /\ try_number' = [try_number EXCEPT ![r][t] = @ + 1]
  /\ UNCHANGED <<dag_run, attempt>>
  /\ UNCHANGED <<repoVars, contribVars, summaryVars, sweepVars>>

\* the python_callable returns or raises; a failed try is repeated while
\* 'retries' allows
FinishTask ==
  /\ \E r \in DagRuns, t \in DOMAIN Tasks, ok \in BOOLEAN :
       /\ ti[r][t] = "running"
       /\ ok \/ FailedTries < MaxTaskFailures
       /\ ti' = [ti EXCEPT ![r][t] =
                   IF ok THEN "success"
                   ELSE IF try_number[r][t] <= Retries THEN "up_for_retry"
                   ELSE "failed"]
  /\ UNCHANGED <<dag_run, try_number, attempt>>
  /\ UNCHANGED <<repoVars, contribVars, summaryVars, sweepVars>>

\* the run ends when its last task has succeeded or a task has failed; the
\* tasks downstream of a failed one are never started
FinishRun ==
  /\ \E r \in DagRuns :
       /\ dag_run[r] = "running"
       /\ \/ /\ ti[r][LastTask] = "success"
             /\ dag_run' = [dag_run EXCEPT ![r] = "success"]
             /\ UNCHANGED ti
          \/ /\ \E t \in DOMAIN Tasks : ti[r][t] = "failed"
             /\ dag_run' = [dag_run EXCEPT ![r] = "failed"]
             /\ ti' = [ti EXCEPT ![r] =
                         [t \in DOMAIN Tasks |->
                            IF ti[r][t] = "none" THEN "upstream_failed" ELSE ti[r][t]]]
  /\ UNCHANGED <<try_number, attempt>>
  /\ UNCHANGED <<repoVars, contribVars, summaryVars, sweepVars>>

PipelineNext == CreateRun \/ StartRun \/ StartTask \/ FinishTask \/ FinishRun

SpecPipeline == PipelineInit /\ [][PipelineNext]_vars

\* ---------------------------------------------------------------- claims

RECURSIVE ClaimedRepoSnapshot(_)
\* what the snapshot holds after the first n organizations when every failing
\* organization yields nothing and every other one all of its records
ClaimedRepoSnapshot(n) ==
  IF n = 0 THEN <<>>
  ELSE ClaimedRepoSnapshot(n - 1) \o
       (IF outcomes[n].at = "none"
        THEN [k \in 1..Len(Processed(orgs[n])) |->
                [organization |-> orgs[n], name |-> Processed(orgs[n])[k].idx,
                 full_name |-> <<orgs[n], Processed(orgs[n])[k].idx>>,
                 collection_date |-> RunDate]]
        ELSE <<>>)

\* C1: in the repository collection stage, whichever organizations fail (at
\* the lookup, the listing or while a repository's fields are read), a failing
\* organization contributes no record to the written snapshot, every other
\* organization contributes all of its records, and once the loop over the
\* organizations has begun the stage does not abort before it has written the
\* snapshot file.
C1_FailingOrgYieldsNothing ==
  /\ repo_file.exists => repo_file.data = ClaimedRepoSnapshot(Len(orgs))
  /\ (rpc = "crashed" /\ outcomes # <<>>) => repo_file.exists

\* the contributor cap of the running implementation
ContributorCap == IF variant = "script" THEN max_contributors ELSE DagContributorCap

\* C2: every entry of the written contributions snapshot whose fetch succeeded
\* stores min(max_contributors_per_repo, n) contributors and
\* total_contributors = n, where n is the number of contributors the API
\* returned for the repository.
C2_TrueTotalRecorded ==
  contrib_file.exists =>
    \A k \in 1..Len(contrib_file.data) :
      LET e == contrib_file.data[k]
          n == api_contributors[e.organization]
      IN e.repo_full_name # fail_repo =>
           /\ Len(e.contributors) = Min(ContributorCap, n)
           /\ e.total_contributors = n

RECURSIVE SucceededNames(_)
\* the full names of the repositories of s whose contributor fetch succeeds
SucceededNames(s) ==
  IF s = <<>> THEN <<>>
  ELSE (IF FailureOf(Head(s)) = "none" THEN <<Head(s).full_name>> ELSE <<>>)
         \o SucceededNames(Tail(s))

\* C3: the written contributions snapshot has no entry for a repository whose
\* contributor fetch failed and one entry, in order, for every other sampled
\* repository; every sampled repository was fetched.
C3_FailedRepoOmitted ==
  contrib_file.exists =>
    /\ [k \in 1..Len(contrib_file.data) |-> contrib_file.data[k].repo_full_name]
         = SucceededNames(top_repos)
    /\ fetches = Len(top_repos)

\* C4: after every RateCheckEvery-th processed repository the quota has been
\* inspected, and once an inspection saw the quota below the threshold no
\* further repository is fetched until the quota is replenished.
C4_QuotaBackpressure ==
  /\ cpc = "fetch" => inspections = (ci - 1) \div RateCheckEvery
  /\ low_at > 0 => fetches <= low_at

Generated == spc \in {"generated", "rendered"}

\* the columns a ranking list keeps of a record
RankingRow(r) ==
  [full_name |-> r.full_name, stars |-> r.stars, forks |-> r.forks,
   language |-> r.language, organization |-> r.organization]

\* data ordered by Before(i, j), "row i comes before row j", a strict total
\* order of the row indices: row i stands at 1 + the number of rows before it
RankedBy(data, Before(_, _)) ==
  [p \in 1..Len(data) |->
     RankingRow(data[CHOOSE i \in DOMAIN data :
                       Cardinality({j \in DOMAIN data : Before(j, i)}) = p - 1])]

\* descending by column a, then descending by column b, then input order
TwoKeyRanking(data, a, b) ==
  RankedBy(data, LAMBDA i, j :
    \/ data[i][a] > data[j][a]
    \/ data[i][a] = data[j][a] /\ data[i][b] > data[j][b]
    \/ data[i][a] = data[j][a] /\ data[i][b] = data[j][b] /\ i < j)

\* descending by column a, then input order
OneKeyRanking(data, a) ==
  RankedBy(data, LAMBDA i, j :
    \/ data[i][a] > data[j][a]
    \/ data[i][a] = data[j][a] /\ i < j)

TopReposK == IF variant = "script" THEN ScriptTopRepos ELSE DagTopRepos

FullNames(rows) == [k \in 1..Len(rows) |-> rows[k].full_name]

\* C5 as stated: the stars ranking is the records sorted descending by stars,
\* ties by forks descending, then input order; the forks ranking descending
\* by forks, then stars, then input order; for A(100,10), B(300,5), C(300,20)
\* the stars ranking is [C, B, A].
C5_RankingTiesByOtherKey ==
  Generated =>
    /\ summary.top_starred_repositories = TwoKeyRanking(s_repos, "stars", "forks")
    /\ summary.top_forked_repositories = TwoKeyRanking(s_repos, "forks", "stars")
    /\ s_repos = <<RepoA, RepoB, RepoC>> =>
         FullNames(summary.top_starred_repositories)
           = <<RepoC.full_name, RepoB.full_name, RepoA.full_name>>

\* C5 as amended: the stars ranking is the first K records sorted descending
\* by stars, ties in input order; the forks ranking the first K descending by
\* forks, ties in input order; for A(100,10), B(300,5), C(300,20) the stars
\* ranking is [B, C, A].
C5_RankingTiesByInputOrder ==
  Generated =>
    /\ summary.top_starred_repositories = Take(OneKeyRanking(s_repos, "stars"), TopReposK)
    /\ summary.top_forked_repositories = Take(OneKeyRanking(s_repos, "forks"), TopReposK)
    /\ s_repos = <<RepoA, RepoB, RepoC>> =>
         FullNames(summary.top_starred_repositories)
           = <<RepoB.full_name, RepoC.full_name, RepoA.full_name>>

\* the report of the input A, B, C has been generated, B ranked before C
C5_Witness ==
  /\ Generated
  /\ s_repos = <<RepoA, RepoB, RepoC>>
  /\ FullNames(summary.top_starred_repositories)
       = <<RepoB.full_name, RepoC.full_name, RepoA.full_name>>

NullCount(data, col) == Cardinality({k \in DOMAIN data : data[k][col] = Null})

\* a histogram counts every record, the null ones in an "unknown" bucket
CountsEveryRecord(histogram, data, col) ==
  /\ SumOf(histogram, "count") = Len(data)
  /\ NullCount(data, col) > 0 =>
       \E k \in DOMAIN histogram :
         histogram[k].key = "unknown" /\ histogram[k].count = NullCount(data, col)

\* C6: every record with a null language adds one to an "unknown" bucket of
\* the language histogram, a null license one to an "unknown" bucket of the
\* license histogram, so the counts of a histogram sum to the number of records.
C6_NullCountedAsUnknown ==
  Generated =>
    /\ CountsEveryRecord(summary.top_languages, s_repos, "language")
    /\ variant = "script" =>
         CountsEveryRecord(summary.license_distribution, s_repos, "license")

\* C7: called with contrib_file = None on a non-empty repository snapshot the
\* aggregator returns a report without a contributor section, and rendering
\* that report gives the HTML document without error and without the
\* contributor table.
C7_NoContribFileNoSection ==
  (contrib_arg = "none" /\ s_repos # <<>>) =>
    /\ spc # "failed"
    /\ Generated => ~summary.has_contribution_analysis
    /\ spc = "rendered" => html.ok /\ ~html.contributor_table

\* the contributor entries of login in the snapshot, one per repository entry
EntriesOf(login) ==
  {<<k, j>> \in (DOMAIN s_contrib) \X (1..MaxApiContributors) :
     j \in DOMAIN s_contrib[k].contributors /\ s_contrib[k].contributors[j].login = login}

RECURSIVE SumContributions(_)
SumContributions(S) ==
  IF S = {} THEN 0
  ELSE LET e == CHOOSE x \in S : TRUE
       IN s_contrib[e[1]].contributors[e[2]].contributions + SumContributions(S \ {e})

\* C8: the leaderboard's total_contributions of a login is the sum of its
\* contributions over all contributor entries with exactly that login, and
\* repos_contributed the number of distinct repositories it appears in.
C8_LeaderboardSumsPerLogin ==
  (Generated /\ summary.has_contribution_analysis) =>
    LET board == summary.contribution_analysis.top_contributors
    IN /\ {board[k].login : k \in DOMAIN board}
            = {c.login : c \in Range(Flatten(s_contrib))}
       /\ \A k \in DOMAIN board :
            /\ board[k].total_contributions = SumContributions(EntriesOf(board[k].login))
            /\ board[k].repos_contributed =
                 Cardinality({s_contrib[e[1]].repo_full_name : e \in EntriesOf(board[k].login)})

\* the calendar: the dates among the tokens of FileUniverse and how many days
\* each lies before 2024-03-10
DaysBeforeMarch10 ==
  [t \in {Ymd(2024, 3, 9), Ymd(2024, 3, 5), Ymd(2024, 3, 3), Ymd(2024, 3, 2),
          Ymd(2024, 2, 29)} |->
     CASE t = Ymd(2024, 3, 9) -> 1
       [] t = Ymd(2024, 3, 5) -> 5
       [] t = Ymd(2024, 3, 3) -> 7
       [] t = Ymd(2024, 3, 2) -> 8
       [] t = Ymd(2024, 2, 29) -> 10]

IsCalendarDate(token) == token \in DOMAIN DaysBeforeMarch10

\* days from the token's date to the reference date ds
AgeDays(token) ==
  DaysBeforeMarch10[token] + (IF ds = Ymd(2024, 3, 10) THEN 0 ELSE 7)

\* the token is a date more than 7 days before ds
DatedBeyondHorizon(f) == IsCalendarDate(f.token) /\ AgeDays(f.token) > 7

FourFiles ==
  { OutFile("repos_raw", Ymd(2024, 3, 9), ".json"),
    OutFile("contributions", Ymd(2024, 3, 5), ".json"),
    OutFile("repos_raw", Ymd(2024, 3, 2), ".json"),
    OutFile("contributions", Ymd(2024, 2, 29), ".json") }

TwoYoungest ==
  { OutFile("repos_raw", Ymd(2024, 3, 9), ".json"),
    OutFile("contributions", Ymd(2024, 3, 5), ".json") }

\* C9 as stated: after a completed retention sweep with reference date ds, a
\* file of the directory has been deleted if and only if the last
\* underscore-separated token of its name is a date more than 7 days before
\* ds; with files dated 1, 5, 8 and 10 days before ds exactly the 8- and
\* 10-day-old files are deleted.
C9_DeletedIffDatedBeyondHorizon ==
  swpc = "done" =>
    /\ \A f \in dir0 : f \notin out_dir <=> DatedBeyondHorizon(f)
    /\ (ds = Ymd(2024, 3, 10) /\ dir0 = FourFiles) => out_dir = TwoYoungest

\* C9 as amended: at any time of a retention sweep a deleted file is a *.json
\* file whose last underscore-separated token, without ".json", is a date
\* more than 7 days before ds, and after a completed sweep exactly these
\* files are deleted; with files dated 1, 5, 8 and 10 days before ds exactly
\* the 8- and 10-day-old files are deleted.
C9_JsonDeletedIffDatedBeyondHorizon ==
  /\ \A f \in dir0 : f \notin out_dir => (f.ext = ".json" /\ DatedBeyondHorizon(f))
  /\ swpc = "done" =>
       /\ \A f \in dir0 : (f.ext = ".json" /\ DatedBeyondHorizon(f)) => f \notin out_dir
       /\ (ds = Ymd(2024, 3, 10) /\ dir0 = FourFiles) => out_dir = TwoYoungest

\* the sweep of the files dated 1, 5, 8 and 10 days before ds has completed
\* and left the two youngest
C9_Witness ==
  /\ swpc = "done"
  /\ ds = Ymd(2024, 3, 10)
  /\ dir0 = FourFiles
  /\ out_dir = TwoYoungest

\* C10: when deleting an expired file fails the sweep does not abort; every
\* other expired file is still deleted and the sweep completes.
C10_SweepSurvivesUnlinkError ==
  /\ swpc # "failed"
  /\ swpc = "done" =>
       \A f \in dir0 :
         (f.ext = ".json" /\ DatedBeyondHorizon(f) /\ f \notin unlink_failed)
           => f \notin out_dir

\* C11: a collection script started without the API credential has exited
\* with status 1 without any request to the hosting API and without an output
\* file; the contributor script started with a missing input file has exited
\* with status 1 without any contributor fetch and without an output file.
C11_FatalBeforeAnyCall ==
  variant = "script" =>
    /\ (~github_token /\ rpc \notin {"idle", "start"}) =>
         rpc = "exit1" /\ api_calls = 0 /\ ~repo_file.exists
    /\ (~github_token /\ cpc \notin {"idle", "start"}) =>
         cpc = "exit1" /\ fetches = 0 /\ inspections = 0 /\ ~contrib_file.exists
    /\ (github_token /\ ~input_exists /\ cpc \notin {"idle", "start", "load"}) =>
         cpc = "exit1" /\ fetches = 0 /\ inspections = 0 /\ ~contrib_file.exists

\* the contributor script has exited on a missing input file although there
\* were repositories to list
C11_Witness ==
  /\ variant = "script" /\ github_token /\ ~input_exists
  /\ repos_data # <<>> /\ cpc = "exit1"

RECURSIVE PrefixesInOrder(_, _)
\* the records of the first counts[i] repositories of the API's listing of
\* orgs[i], for i = 1..n, one organization after the other
PrefixesInOrder(counts, n) ==
  IF n = 0 THEN <<>>
  ELSE PrefixesInOrder(counts, n - 1) \o
       [k \in 1..counts[n] |->
          [organization |-> orgs[n], name |-> k, full_name |-> <<orgs[n], k>>]]

\* records without the collection metadata
WithoutDate(data) ==
  [k \in 1..Len(data) |->
     [organization |-> data[k].organization, name |-> data[k].name,
      full_name |-> data[k].full_name]]

\* data holds, for each of the first n organizations in configured order, the
\* first records of its listing in listing order, at most max_repos of them
CappedPrefixes(data, n) ==
  \E counts \in [1..n -> 0..max_repos] :
    /\ \A i \in 1..n : counts[i] <= listing[orgs[i]]
    /\ data = PrefixesInOrder(counts, n)

\* C12: src/collect_repo_data.py emits at most max_repos records for every
\* organization, the first of the API's listing in the API's order, and the
\* written snapshot is the per-organization sequences one after the other in
\* configured organization order.
C12_FirstMaxReposInApiOrder ==
  variant = "script" =>
    /\ rpc = "collect" => CappedPrefixes(all_repo_data, oi - 1)
    /\ repo_file.exists => CappedPrefixes(WithoutDate(repo_file.data), Len(orgs))

\* a snapshot of two organizations has been written, the first cut to
\* max_repos, the second kept whole
C12_Witness ==
  /\ variant = "script" /\ repo_file.exists
  /\ orgs = <<"kubernetes", "apache">>
  /\ listing["kubernetes"] > max_repos /\ listing["apache"] = 1
  /\ Len(repo_file.data) = max_repos + 1

\* the sample size of the running implementation
SampleCap == IF variant = "script" THEN max_sample ELSE DagSampleCap

\* the full names of the input snapshot ranked descending by stars, records
\* of equal stars in input order: the row with p - 1 rows before it stands at p
RankedNames ==
  [p \in 1..Len(repos_data) |->
     repos_data[CHOOSE i \in DOMAIN repos_data :
                  Cardinality({j \in DOMAIN repos_data :
                                 \/ repos_data[j].stars > repos_data[i].stars
                                 \/ repos_data[j].stars = repos_data[i].stars /\ j < i})
                    = p - 1].full_name]

\* C13: the contributor collector fetches the first max_repos_to_sample
\* repositories of the input snapshot ranked descending by stars with ties in
\* input order, in that order, and no other repository.
C13_SampleIsTopByStars ==
  LET sample == Take(RankedNames, SampleCap)
  IN /\ Len(fetched) <= Len(sample)
     /\ fetched = Take(sample, Len(fetched))
     /\ cpc = "done" => fetched = sample

\* the script has sampled one repository of two and fetched the one with more
\* stars, which stands second in the input
C13_Witness ==
  /\ cpc = "done" /\ variant = "script" /\ max_sample = 1
  /\ repos_data = <<Repo("apache", 1, 100, 10, "Python"), Repo("apache", 2, 300, 5, Null)>>
  /\ fetched = << <<"apache", 2>> >>

\* the distinct values of column col that a histogram counts
DistinctValues(data, col) == {data[k][col] : k \in DOMAIN data} \ {Null}

DistinctLogins == {c.login : c \in Range(Flatten(s_contrib))}

TopLanguagesK == IF variant = "script" THEN ScriptTopLanguages ELSE DagTopLanguages

TopContributorsK == IF variant = "script" THEN ScriptTopContributors ELSE DagTopContributors

\* C14: every top-K section of the summary holds exactly min(K, number of
\* candidates) elements: the two rankings of the records, the language and
\* license histograms of the distinct values counted, the leaderboard of the
\* distinct logins.
C14_TopKHoldsMinOfKAndCandidates ==
  Generated =>
    /\ Len(summary.top_starred_repositories) = Min(TopReposK, Len(s_repos))
    /\ Len(summary.top_forked_repositories) = Min(TopReposK, Len(s_repos))
    /\ Len(summary.top_languages)
         = Min(TopLanguagesK, Cardinality(DistinctValues(s_repos, "language")))
    /\ variant = "script" =>
         Len(summary.license_distribution)
           = Min(ScriptTopLicenses, Cardinality(DistinctValues(s_repos, "license")))
    /\ summary.has_contribution_analysis =>
         Len(summary.contribution_analysis.top_contributors)
           = Min(TopContributorsK, Cardinality(DistinctLogins))

\* a report whose five lists are each cut to their K
C14_Witness ==
  /\ Generated /\ variant = "script"
  /\ Len(s_repos) > ScriptTopRepos
  /\ Len(summary.top_starred_repositories) = ScriptTopRepos
  /\ Len(summary.top_forked_repositories) = ScriptTopRepos
  /\ Cardinality(DistinctValues(s_repos, "language")) > ScriptTopLanguages
  /\ Len(summary.top_languages) = ScriptTopLanguages
  /\ Cardinality(DistinctValues(s_repos, "license")) > ScriptTopLicenses
  /\ Len(summary.license_distribution) = ScriptTopLicenses
  /\ Cardinality(DistinctLogins) > ScriptTopContributors
  /\ Len(summary.contribution_analysis.top_contributors) = ScriptTopContributors

\* C15: across the executions of a stage for one date token, re-runs and
\* retries included, a snapshot file that has been written is not written
\* again and its content does not change.
C15_SnapshotNeverRewritten ==
  [][ /\ repo_file.exists => (~SaveRepos /\ repo_file' = repo_file)
      /\ contrib_file.exists => (~SaveContrib /\ contrib_file' = contrib_file) ]_vars

\* a task instance has been started
Started(r, t) == ti[r][t] \in {"running", "success", "failed", "up_for_retry"}

\* C16: in every DAG run the tasks execute in the order collect_repositories,
\* collect_contributions, process_data, validate_output, cleanup_old_files: a
\* task has been started only if the task before it has succeeded, no two
\* tasks of a run are running at once, and at most one run is active.
C16_StagesInOrderOneRunActive ==
  /\ Tasks = <<"collect_repositories", "collect_contributions", "process_data",
               "validate_output", "cleanup_old_files">>
  /\ \A r \in DagRuns :
       /\ \A t \in 2..Len(Tasks) : Started(r, t) => ti[r][t - 1] = "success"
       /\ Cardinality({t \in DOMAIN Tasks : ti[r][t] = "running"}) <= 1
       /\ (\E t \in DOMAIN Tasks : ti[r][t] = "running") => dag_run[r] = "running"
  /\ Cardinality({r \in DagRuns : dag_run[r] = "running"}) <= 1

\* the retention sweep of one run is running after a retried collection,
\* while the next run waits in the queue
C16_Witness ==
  /\ dag_run[1] = "running" /\ dag_run[2] = "queued"
  /\ ti[1][LastTask] = "running"
  /\ try_number[1][1] = 2

\* the contributor entries of the snapshot in scanning order
AllContributors == Flatten(s_contrib)

\* the summed contributions of a login
TotalOf(login) ==
  SumOver([i \in DOMAIN AllContributors |-> AllContributors[i].contributions],
          {i \in DOMAIN AllContributors : AllContributors[i].login = login})

\* where the scan first meets a login
FirstSeenAt(login) ==
  SetMin({i \in DOMAIN AllContributors : AllContributors[i].login = login})

\* the logins that stand before login on the leaderboard: a larger sum, or
\* the same sum and seen earlier
AheadOf(login) ==
  {m \in DistinctLogins :
     \/ TotalOf(m) > TotalOf(login)
     \/ TotalOf(m) = TotalOf(login) /\ FirstSeenAt(m) < FirstSeenAt(login)}

\* C17: the contributor leaderboard of src/generate_summary.py lists the
\* logins in descending order of summed contributions, logins of equal sums
\* in the order in which the scan of the snapshot first met them, cut to the
\* first 25.
C17_LeaderboardOrder ==
  (Generated /\ variant = "script" /\ summary.has_contribution_analysis) =>
    LET board == summary.contribution_analysis.top_contributors
    IN /\ Len(board) = Min(ScriptTopContributors, Cardinality(DistinctLogins))
       /\ \A p \in DOMAIN board :
            /\ board[p].login \in DistinctLogins
            /\ Cardinality(AheadOf(board[p].login)) = p - 1
            /\ board[p].total_contributions = TotalOf(board[p].login)

\* a leaderboard cut to 25 of 26 logins that holds two neighbours of equal
\* sums and a login seen in both repositories
C17_Witness ==
  /\ Generated /\ variant = "script" /\ summary.has_contribution_analysis
  /\ Cardinality(DistinctLogins) > ScriptTopContributors
  /\ LET board == summary.contribution_analysis.top_contributors
     IN /\ Len(board) = ScriptTopContributors
        /\ \E p \in 1..(Len(board) - 1) :
             /\ board[p].total_contributions = board[p + 1].total_contributions
             /\ FirstSeenAt(board[p].login) < FirstSeenAt(board[p + 1].login)
        /\ \E p \in DOMAIN board :
             Cardinality({i \in DOMAIN AllContributors :
                            AllContributors[i].login = board[p].login}) = 2

\* the sum of the total_contributors fields of the contributor snapshot
StoredTotals ==
  SumOver([k \in DOMAIN s_contrib |-> s_contrib[k].total_contributors], DOMAIN s_contrib)

Abs(x) == IF x < 0 THEN -x ELSE x

\* C18: with a contributor snapshot that is present and not empty, the
\* report's total_contributors is the sum of the total_contributors fields of
\* the snapshot's repositories, and average_contributors_per_repo is that sum
\* divided by the number of repositories, to the nearest hundredth.
C18_TotalIsSumOfStoredTotals ==
  (Generated /\ summary.has_contribution_analysis /\ s_contrib # <<>>) =>
    LET section == summary.contribution_analysis
    IN /\ section.total_contributors = StoredTotals
       /\ 2 * Abs(100 * StoredTotals - Len(s_contrib) * section.average_contributors_per_repo)
            <= Len(s_contrib)

\* a report over two repositories that store 3 contributors and record 31
C18_Witness ==
  /\ Generated /\ summary.has_contribution_analysis
  /\ Len(s_contrib) = 2 /\ StoredTotals = 31 /\ Len(AllContributors) = 3
  /\ summary.contribution_analysis.total_contributors = 31
  /\ summary.contribution_analysis.average_contributors_per_repo = 1550

\* C19: for every non-empty repository snapshot the per-organization star
\* sums of the rollup add up to the report's total_stars and the
\* per-organization repository counts to total_repositories.
C19_RollupAddsUpToTotals ==
  (Generated /\ s_repos # <<>>) =>
    LET rollup == summary.organization_breakdown
    IN /\ DOMAIN rollup = {s_repos[k].organization : k \in DOMAIN s_repos}
       /\ SumOver([o \in DOMAIN rollup |-> rollup[o].stars_sum], DOMAIN rollup)
            = summary.total_stars
       /\ SumOver([o \in DOMAIN rollup |-> rollup[o].name], DOMAIN rollup)
            = summary.total_repositories
       /\ summary.total_repositories = Len(s_repos)
       /\ summary.total_stars
            = SumOver([k \in DOMAIN s_repos |-> s_repos[k].stars], DOMAIN s_repos)

\* the report of three repositories of two organizations
C19_Witness ==
  /\ Generated
  /\ s_repos = <<RepoB, RepoC, RepoA>>
  /\ summary.organization_breakdown["apache"].stars_sum = 400
  /\ summary.organization_breakdown["kubernetes"].name = 1
  /\ summary.total_stars = 700

\* C20: run on the empty snapshot that the collector writes when every
\* organization fetch fails, src/generate_summary.py completes and returns a
\* report with total_repositories = 0, total_organizations = 0 and no
\* largest_repo.
C20_EmptySnapshotSummarized ==
  (variant = "script" /\ s_repos = <<>> /\ spc # "input") =>
    /\ spc # "failed"
    /\ summary.ok
    /\ summary.total_repositories = 0
    /\ summary.total_organizations = 0
    /\ summary.largest_repo = Null

====
